---- MODULE Spec2Model ----
(***************************************************************************)
(* Model of riscv_extension_analyzer.py: the RISC-V ISA string parser      *)
(* (RiscvExtensionAnalyzer.__init__, check_base_isa, parse_isa_string),    *)
(* the implication / shorthand resolution (add_implied_extensions) and the *)
(* RVA23 readiness check (rva23_to_check, is_rva23_ready).                 *)
(*                                                                         *)
(* Strings are sequences of one-character strings.  An extension name is   *)
(* such a sequence too, and a SortedList is a sequence of names kept in    *)
(* ascending lexical order (duplicates allowed, as in sortedcontainers).   *)
(***************************************************************************)
EXTENDS Integers, Sequences, FiniteSets, TLC

VARIABLES
    entry,            \* which entry point runs: "ctor", "add_implied", "rva23"
    pc,               \* position in the running code
    isa_input,        \* the isa_string argument of __init__
    bitness,          \* self.bitness (0 while unset)
    isa_string,       \* the local isa_string of parse_isa_string
    multi_character,  \* the local flag of parse_isa_string
    extensions,       \* the SortedList being built / resolved
    check,            \* the local check of is_rva23_ready
    check_pos,        \* index of the for loop of is_rva23_ready (0 before it)
    err               \* message of the raised RiscvExtensionException, or NoError

vars == <<entry, pc, isa_input, bitness, isa_string, multi_character,
          extensions, check, check_pos, err>>

----------------------------------------------------------------------------
(* Bounds of the model *)

\* longest ISA string body (after the base ISA) enumerated character by character
MaxLen == 4
\* most underscore-separated tokens in an enumerated token list
MaxTokens == 3
\* largest initial collection handed directly to add_implied_extensions
MaxInit == 3
\* most tokens left out of the RVA23-complete ISA string
MaxOmit == 2

----------------------------------------------------------------------------
(* Characters and strings *)

\* the characters of the model in ASCII order
Alphabet ==
    << "0","1","2","3","4","5","6","7","8","9",
       "A","B","C","D","E","F","G","H","I","J","K","L","M",
       "N","O","P","Q","R","S","T","U","V","W","X","Y","Z",
       "_",
       "a","b","c","d","e","f","g","h","i","j","k","l","m",
       "n","o","p","q","r","s","t","u","v","w","x","y","z" >>

\* ord(c) up to an order-preserving renumbering (@@ makes TLC tabulate the
\* function once)
CodeOf ==
    [c \in {Alphabet[k] : k \in 1..Len(Alphabet)} |->
        CHOOSE k \in 1..Len(Alphabet) : Alphabet[k] = c] @@ <<>>

Code(c) == CodeOf[c]

IsDigit(c) == c \in {"0","1","2","3","4","5","6","7","8","9"}

\* str.lower() on one character
LowerChar(c) ==
    LET k == Code(c)
    IN  IF k >= 11 /\ k <= 36 THEN Alphabet[k + 27] ELSE c

\* str.lower()
Lower(s) == [k \in 1..Len(s) |-> LowerChar(s[k])]

\* str.startswith()
StartsWith(s, prefix) ==
    /\ Len(s) >= Len(prefix)
    /\ SubSeq(s, 1, Len(prefix)) = prefix

\* s[n:]
Drop(s, n) == SubSeq(s, n + 1, Len(s))

\* lexical order of Python strings: a < b
RECURSIVE Less(_, _)
Less(a, b) ==
    IF b = <<>> THEN FALSE
    ELSE IF a = <<>> THEN TRUE
    ELSE IF a[1] = b[1] THEN Less(Tail(a), Tail(b))
    ELSE Code(a[1]) < Code(b[1])

----------------------------------------------------------------------------
(* SortedList *)

\* x in extensions
Contains(list, x) == \E k \in 1..Len(list) : list[k] = x

\* SortedList.add(x): insert after the last element that is <= x
Add(list, x) ==
    LET n == Cardinality({k \in 1..Len(list) : ~Less(x, list[k])})
    IN  SubSeq(list, 1, n) \o <<x>> \o SubSeq(list, n + 1, Len(list))

\* SortedList.remove(x): delete one occurrence of x
Remove(list, x) ==
    LET k == CHOOSE j \in 1..Len(list) :
                 list[j] = x /\ \A h \in 1..(j - 1) : list[h] # x
    IN  SubSeq(list, 1, k - 1) \o SubSeq(list, k + 1, Len(list))

\* SortedList(iterable): the items in ascending order.  An item goes to the
\* position that counts the smaller items and the equal items up to its own
\* (@@ makes TLC tabulate the positions once).
SortedList(items) ==
    LET n == Len(items)
        position ==
            [k \in 1..n |->
                Cardinality({j \in 1..n :
                    \/ Less(items[j], items[k])
                    \/ items[j] = items[k] /\ j <= k})] @@ <<>>
    IN  [p \in 1..n |-> items[CHOOSE k \in 1..n : position[k] = p]]

\* the members of a list as a set
Members(list) == {list[k] : k \in 1..Len(list)}

----------------------------------------------------------------------------
(* check_base_isa *)

NoError == "none"

base_isas ==
    << [key |-> <<"r","v","1","2","8">>, value |-> 128],
       [key |-> <<"r","v","6","4">>,     value |-> 64],
       [key |-> <<"r","v","3","2">>,     value |-> 32] >>

\* bitness 0 stands for None: 'Invalid base ISA' is raised
check_base_isa(s) ==
    LET hits == {k \in 1..Len(base_isas) : StartsWith(s, base_isas[k].key)}
    IN  IF hits = {} THEN [bitness |-> 0, remainder |-> <<>>]
        ELSE LET k == CHOOSE j \in hits : \A h \in hits : j <= h
             IN  [bitness   |-> base_isas[k].value,
                  remainder |-> Drop(s, Len(base_isas[k].key))]

----------------------------------------------------------------------------
(* The regular expressions of parse_isa_string *)

\* number of consecutive digits of s starting at position k
RECURSIVE DigitRun(_, _)
DigitRun(s, k) ==
    IF k > Len(s) \/ k < 1 THEN 0
    ELSE IF IsDigit(s[k]) THEN 1 + DigitRun(s, k + 1)
    ELSE 0

\* number of consecutive digits of s ending at position k
RECURSIVE DigitRunBack(_, _)
DigitRunBack(s, k) ==
    IF k < 1 \/ k > Len(s) THEN 0
    ELSE IF IsDigit(s[k]) THEN 1 + DigitRunBack(s, k - 1)
    ELSE 0

\* re.match(r'^[^_]+', s): length of the match, 0 when there is none
RECURSIVE MatchMulti(_)
MatchMulti(s) ==
    IF s = <<>> \/ s[1] = "_" THEN 0
    ELSE 1 + MatchMulti(Tail(s))

\* a variant that matches r'^\D' only: the version alternatives are missing
MatchSingleLetterOnly(s) ==
    IF s = <<>> \/ IsDigit(s[1]) THEN 0 ELSE 1

\* re.match(r'^\D\d+p\d+|\D\d+|\D', s): length of the match, 0 when none
MatchSingle(s) ==
    IF s = <<>> \/ IsDigit(s[1]) THEN 0
    ELSE LET d1 == DigitRun(s, 2)
             d2 == DigitRun(s, d1 + 3)
         IN  IF d1 >= 1 /\ Len(s) >= d1 + 2 /\ s[d1 + 2] = "p" /\ d2 >= 1
             THEN 1 + d1 + 1 + d2
             ELSE IF d1 >= 1 THEN 1 + d1
             ELSE 1

\* the names kept with their digits
unversioned ==
    { <<"s","v","3","2">>, <<"s","v","3","9">>,
      <<"s","v","4","8">>, <<"s","v","5","9">> }

\* re.search(r'\d+p\d+$') and then re.search(r'\d+$'): the extension cut
\* at the start of the match
StripVersion(extension) ==
    IF extension \in unversioned THEN extension
    ELSE LET n  == Len(extension)
             t  == DigitRunBack(extension, n)
             d1 == DigitRunBack(extension, n - t - 1)
         IN  IF t >= 1 /\ n - t >= 1 /\ extension[n - t] = "p" /\ d1 >= 1
             THEN SubSeq(extension, 1, n - t - 1 - d1)
             ELSE IF t >= 1 THEN SubSeq(extension, 1, n - t)
             ELSE extension

----------------------------------------------------------------------------
(* One iteration of the while loop of parse_isa_string *)

Error(message, name) == [message |-> message, name |-> name]

NoName == <<>>

\* a variant that sets multi_character before the 'elif multi_character' test
ParseStepFlagFirst(s, multi, exts) ==
    LET underscore == s[1] = "_"
        s1 == IF underscore THEN Tail(s) ELSE s
        fail(message) ==
            [isa_string |-> s1, multi_character |-> multi,
             extensions |-> exts, err |-> Error(message, NoName)]
    IN  IF underscore /\ s1 = <<>> THEN fail("Missing extension")
        ELSE
          LET multi1 == multi \/ s1[1] \in {"s", "x", "z"}
              len == IF multi1 THEN MatchMulti(s1) ELSE MatchSingle(s1)
          IN  IF ~underscore /\ multi1 THEN fail("Expecting underscore")
              ELSE IF len = 0 THEN fail("Expecting extension")
              ELSE
                LET extension == StripVersion(SubSeq(s1, 1, len))
                IN  IF extension = <<>> THEN fail("Zero length extension")
                    ELSE [isa_string      |-> Drop(s1, len),
                          multi_character |-> multi1,
                          extensions      |-> Add(exts, extension),
                          err             |-> Error(NoError, NoName)]

parse_step(s, multi, exts) ==
    LET underscore == s[1] = "_"
        s1 == IF underscore THEN Tail(s) ELSE s
        fail(message) ==
            [isa_string |-> s1, multi_character |-> multi,
             extensions |-> exts, err |-> Error(message, NoName)]
    IN  IF underscore /\ s1 = <<>> THEN fail("Missing extension")
        ELSE IF ~underscore /\ multi THEN fail("Expecting underscore")
        ELSE
          LET multi1 == multi \/ s1[1] \in {"s", "x", "z"}
              len == IF multi1 THEN MatchMulti(s1) ELSE MatchSingle(s1)
          IN  IF len = 0 THEN fail("Expecting extension")
              ELSE
                LET extension == StripVersion(SubSeq(s1, 1, len))
                IN  IF extension = <<>> THEN fail("Zero length extension")
                    ELSE [isa_string      |-> Drop(s1, len),
                          multi_character |-> multi1,
                          extensions      |-> Add(exts, extension),
                          err             |-> Error(NoError, NoName)]

----------------------------------------------------------------------------
(* add_implied_extensions *)

implies ==
       (<<"m">> :> <<<<"z","m","m","u","l">>>>)
    @@ (<<"a">> :> <<<<"z","a","a","m","o">>>>)
    @@ (<<"f">> :> <<<<"z","i","c","s","r">>>>)
    @@ (<<"d">> :> <<<<"f">>>>)
    @@ (<<"q">> :> <<<<"d">>>>)
    @@ (<<"v">> :> <<<<"d">>>>)
    @@ (<<"z","f","h">> :> <<<<"z","f","h","m","i","n">>>>)

shorthand ==
       (<<"b">> :> << <<"z","b","a">>, <<"z","b","b">>, <<"z","b","s">> >>)
    @@ (<<"g">> :> << <<"i">>, <<"m">>, <<"a">>, <<"f">>, <<"d">>,
                      <<"z","i","c","s","r">>,
                      <<"z","i","f","e","n","c","e","i">> >>)
    @@ (<<"z","k">> :> << <<"z","k","n">>, <<"z","k","r">>, <<"z","k","t">> >>)
    @@ (<<"z","k","n">> :>
            << <<"z","b","k","b">>, <<"z","b","k","c">>, <<"z","b","k","x">>,
               <<"z","k","n","e">>, <<"z","k","n","d">>, <<"z","k","n","h">> >>)
    @@ (<<"z","k","s">> :>
            << <<"z","b","k","b">>, <<"z","b","k","c">>, <<"z","b","k","x">>,
               <<"z","k","s","e","d">>, <<"z","k","s","h">> >>)
    @@ (<<"z","v","k","n">> :>
            << <<"z","v","k","n","e","d">>, <<"z","v","k","n","h","b">>,
               <<"z","v","k","b">>, <<"z","v","k","t">> >>)
    @@ (<<"z","v","k","n","c">> :>
            << <<"z","v","k","n">>, <<"z","v","b","c">> >>)
    @@ (<<"z","v","k","n","g">> :>
            << <<"z","v","k","n">>, <<"z","v","k","g">> >>)
    @@ (<<"z","v","k","s">> :>
            << <<"z","v","k","s","e","d">>, <<"z","v","k","s","h">>,
               <<"z","v","k","b">>, <<"z","v","k","t">> >>)
    @@ (<<"z","v","k","s","c">> :>
            << <<"z","v","k","s">>, <<"z","v","b","c">> >>)
    @@ (<<"z","v","k","s","g">> :>
            << <<"z","v","k","s">>, <<"z","v","k","g">> >>)

\* for implied in items: if implied not in extensions: extensions.add(implied)
\* (the list after each step is bound by a singleton set, which makes TLC
\* evaluate it once)
RECURSIVE AddMissing(_, _)
AddMissing(exts, items) ==
    IF items = <<>> THEN exts
    ELSE CHOOSE result \in
             { AddMissing(added, Tail(items)) :
                 added \in { IF Contains(exts, Head(items)) THEN exts
                             ELSE Add(exts, Head(items)) } } : TRUE

\* one iteration of the first 'while update' loop: the for loop runs over the
\* list in order and breaks after the first member that added something
implication_pass(exts) ==
    LET hits == {k \in 1..Len(exts) :
                    /\ exts[k] \in DOMAIN implies
                    /\ \E j \in 1..Len(implies[exts[k]]) :
                           ~Contains(exts, implies[exts[k]][j])}
    IN  IF hits = {} THEN [update |-> FALSE, extensions |-> exts]
        ELSE LET k == CHOOSE j \in hits : \A h \in hits : j <= h
             IN  [update     |-> TRUE,
                  extensions |-> AddMissing(exts, implies[exts[k]])]

\* a variant that expands the first shorthand member and does not set update
ShorthandScanOnce(exts) ==
    LET hits == {k \in 1..Len(exts) : exts[k] \in DOMAIN shorthand}
    IN  IF hits = {} THEN [update |-> FALSE, extensions |-> exts]
        ELSE LET k == CHOOSE j \in hits : \A h \in hits : j <= h
             IN  [update     |-> FALSE,
                  extensions |->
                      CHOOSE result \in
                          { Remove(expanded, exts[k]) :
                              expanded \in {AddMissing(exts, shorthand[exts[k]])} } :
                          TRUE]

\* a variant that expands the first shorthand member and does not remove it
ShorthandScanKeep(exts) ==
    LET hits == {k \in 1..Len(exts) : exts[k] \in DOMAIN shorthand}
    IN  IF hits = {} THEN [update |-> FALSE, extensions |-> exts]
        ELSE LET k == CHOOSE j \in hits : \A h \in hits : j <= h
             IN  [update     |-> TRUE,
                  extensions |-> AddMissing(exts, shorthand[exts[k]])]

\* one iteration of the second 'while update' loop: the first shorthand
\* member is expanded and removed
shorthand_scan(exts) ==
    LET hits == {k \in 1..Len(exts) : exts[k] \in DOMAIN shorthand}
    IN  IF hits = {} THEN [update |-> FALSE, extensions |-> exts]
        ELSE LET k == CHOOSE j \in hits : \A h \in hits : j <= h
             IN  [update     |-> TRUE,
                  extensions |->
                      CHOOSE result \in
                          { Remove(expanded, exts[k]) :
                              expanded \in {AddMissing(exts, shorthand[exts[k]])} } :
                          TRUE]

\* the first loop run to its end
RECURSIVE implication_loop(_)
implication_loop(exts) ==
    LET r == implication_pass(exts)
    IN  IF r.update THEN implication_loop(r.extensions) ELSE exts

\* the second loop run to its end
RECURSIVE shorthand_loop(_)
shorthand_loop(exts) ==
    LET r == shorthand_scan(exts)
    IN  IF r.update THEN shorthand_loop(r.extensions) ELSE exts

add_implied_extensions(exts) == shorthand_loop(implication_loop(exts))

----------------------------------------------------------------------------
(* parse_isa_string and __init__ as functions of their argument *)

RECURSIVE parse_loop(_, _, _)
parse_loop(s, multi, exts) ==
    IF s = <<>>
    THEN [extensions |-> add_implied_extensions(exts),
          err |-> Error(NoError, NoName)]
    ELSE LET r == parse_step(s, multi, exts)
         IN  IF r.err.message # NoError
             THEN [extensions |-> r.extensions, err |-> r.err]
             ELSE parse_loop(r.isa_string, r.multi_character, r.extensions)

parse_isa_string(s) == parse_loop(s, FALSE, <<>>)

\* RiscvExtensionAnalyzer(isa_string)
RiscvExtensionAnalyzer(s) ==
    LET base == check_base_isa(Lower(s))
    IN  IF base.bitness = 0
        THEN [bitness |-> 0, extensions |-> <<>>,
              err |-> Error("Invalid base ISA", NoName)]
        ELSE LET r == parse_isa_string(base.remainder)
             IN  [bitness |-> base.bitness, extensions |-> r.extensions,
                  err |-> r.err]

----------------------------------------------------------------------------
(* linux_supported, rva23_required, rva23_to_check *)

linux_6_14 ==
    << <<"i">>, <<"m">>, <<"a">>, <<"f">>,
       <<"d">>, <<"q">>, <<"c">>, <<"v">>,
       <<"z","i","c","b","o","m">>, <<"z","i","c","b","o","z">>,
       <<"z","i","c","c","r","s","e">>, <<"z","i","c","n","t","r">>,
       <<"z","i","c","o","n","d">>, <<"z","i","c","s","r">>,
       <<"z","i","f","e","n","c","e","i">>,
       <<"z","i","h","i","n","t","n","t","l">>,
       <<"z","i","h","i","n","t","p","a","u","s","e">>,
       <<"z","i","h","p","m">>, <<"z","i","m","o","p">>,
       <<"z","a","b","h","a">>, <<"z","a","c","a","s">>,
       <<"z","a","w","r","s">>, <<"z","f","a">>, <<"z","f","h">>,
       <<"z","f","h","m","i","n">>, <<"z","c","a">>, <<"z","c","b">>,
       <<"z","c","d">>, <<"z","c","f">>, <<"z","c","m","o","p">>,
       <<"z","b","a">>, <<"z","b","b">>, <<"z","b","c">>,
       <<"z","b","k","b">>, <<"z","b","k","c">>, <<"z","b","k","x">>,
       <<"z","b","s">>, <<"z","k">>, <<"z","k","n">>, <<"z","k","n","d">>,
       <<"z","k","n","e">>, <<"z","k","n","h">>, <<"z","k","r">>,
       <<"z","k","s">>, <<"z","k","t">>, <<"z","k","s","e","d">>,
       <<"z","k","s","h">>, <<"z","t","s","o">>, <<"z","v","b","b">>,
       <<"z","v","b","c">>, <<"z","v","e","3","2","f">>,
       <<"z","v","e","3","2","x">>, <<"z","v","e","6","4","d">>,
       <<"z","v","e","6","4","f">>, <<"z","v","e","6","4","x">>,
       <<"z","v","f","h">>, <<"z","v","f","h","m","i","n">>,
       <<"z","v","k","b">>, <<"z","v","k","g">>, <<"z","v","k","n">>,
       <<"z","v","k","n","c">>, <<"z","v","k","n","e","d">>,
       <<"z","v","k","n","g">>, <<"z","v","k","n","h","a">>,
       <<"z","v","k","n","h","b">>, <<"z","v","k","s">>,
       <<"z","v","k","s","c">>, <<"z","v","k","s","e","d">>,
       <<"z","v","k","s","h">>, <<"z","v","k","s","g">>,
       <<"z","v","k","t">> >>

rva23 ==
    << <<"i">>, <<"m">>, <<"a">>, <<"f">>,
       <<"d">>, <<"c">>, <<"b">>, <<"v">>,
       <<"z","i","c","6","4","b">>, <<"z","i","c","b","o","m">>,
       <<"z","i","c","b","o","p">>, <<"z","i","c","b","o","z">>,
       <<"z","i","c","c","a","m","o","a">>, <<"z","i","c","c","i","f">>,
       <<"z","i","c","c","l","s","m">>, <<"z","i","c","c","r","s","e">>,
       <<"z","i","c","n","t","r">>, <<"z","i","c","o","n","d">>,
       <<"z","i","c","s","r">>, <<"z","i","f","e","n","c","e","i">>,
       <<"z","i","h","i","n","t","n","t","l">>,
       <<"z","i","h","i","n","t","p","a","u","s","e">>,
       <<"z","i","h","p","m">>, <<"z","i","m","o","p">>,
       <<"z","a","6","4","r","s">>, <<"z","a","w","r","s">>,
       <<"z","f","a">>, <<"z","f","b","f","m","i","n">>,
       <<"z","f","h","m","i","n">>, <<"z","c","b">>,
       <<"z","c","m","o","p">>, <<"z","b","a">>, <<"z","b","b">>,
       <<"z","b","s">>, <<"z","v","b","b">>,
       <<"z","v","f","h","m","i","n">>, <<"z","v","k","t">>,
       <<"z","k","n">>, <<"z","k","r">>, <<"z","k","t">> >>

linux_supported == add_implied_extensions(SortedList(linux_6_14))

rva23_required == add_implied_extensions(SortedList(rva23))

\* a variant that does not filter by the Linux list
Rva23ToCheckUnfiltered == rva23_required

\* SortedList(ext for ext in check if ext in linux)
rva23_to_check ==
    SortedList(SelectSeq(rva23_required,
                         LAMBDA ext : Contains(linux_supported, ext)))

----------------------------------------------------------------------------
(* Inputs *)

\* all sequences over S of length at most n
SeqsUpTo(S, n) == UNION {[1..k -> S] : k \in 0..n}

\* '_'.join(tokens)
RECURSIVE Join(_)
Join(tokens) ==
    IF tokens = <<>> THEN <<>>
    ELSE IF Len(tokens) = 1 THEN tokens[1]
    ELSE tokens[1] \o <<"_">> \o Join(Tail(tokens))

\* characters of the enumerated ISA string bodies
BodyChars == {"i", "m", "z", "_", "2", "p"}

\* base ISA prefixes of the enumerated strings: valid, upper case, invalid
Prefixes == { <<"r","v","6","4">>, <<"R","V","3","2">>, <<"r","v","1","6">> }

\* the ISA strings of test_bitness and test_extensions
Test1Isa ==
    << "R","V","3","2","I","M","A","C","Z","i","c","s","r","_",
       "Z","i","f","e","n","c","e","i" >>

Test3Isa == << "r","v","6","4","g","c","s","v","3","9" >>

\* tokens of the enumerated underscore-separated token lists
TokenSet ==
    { <<"m">>, <<"a","2","p","1">>, <<"f">>, <<"g">>, <<"z","k">>,
      <<"s","v","3","9">>, <<"z","f","h","2">> }

TokenInputs ==
    { <<"r","v","6","4">> \o Join(ts) : ts \in SeqsUpTo(TokenSet, MaxTokens) }

ParseInputs ==
    { prefix \o body : prefix \in Prefixes, body \in SeqsUpTo(BodyChars, MaxLen) }
        \cup TokenInputs \cup {Test1Isa, Test3Isa}

\* names of the collections handed directly to add_implied_extensions
ResolveNames ==
    { <<"m">>, <<"d">>, <<"v">>, <<"z","f","h">>, <<"c">>, <<"z","k","t">>,
      <<"g">>, <<"b">>, <<"z","k">>, <<"z","k","n">>,
      <<"z","v","k","n","c">>, <<"z","v","k","s","g">> }

ResolveInputs == { SortedList(items) : items \in SeqsUpTo(ResolveNames, MaxInit) }

\* an ISA line of /proc/cpuinfo that satisfies RVA23 on Linux 6.14
cpuinfo_tokens ==
    << <<"i">>, <<"m">>, <<"a">>, <<"f">>, <<"d">>, <<"c">>, <<"v">>,
       <<"z","i","c","b","o","m">>, <<"z","i","c","b","o","z">>,
       <<"z","i","c","c","r","s","e">>, <<"z","i","c","n","t","r">>,
       <<"z","i","c","o","n","d">>, <<"z","i","c","s","r">>,
       <<"z","i","f","e","n","c","e","i">>,
       <<"z","i","h","i","n","t","n","t","l">>,
       <<"z","i","h","i","n","t","p","a","u","s","e">>,
       <<"z","i","h","p","m">>, <<"z","i","m","o","p">>,
       <<"z","a","w","r","s">>, <<"z","f","a">>,
       <<"z","f","h","m","i","n">>, <<"z","c","b">>,
       <<"z","c","m","o","p">>, <<"z","b","a">>, <<"z","b","b">>,
       <<"z","b","s">>, <<"z","v","b","b">>,
       <<"z","v","f","h","m","i","n">>, <<"z","v","k","t">>,
       <<"z","k","n">>, <<"z","k","r">>, <<"z","k","t">> >>

\* the tokens that the enumerated cpuinfo lines may lack
Omittable ==
    { <<"a">>, <<"m">>, <<"v">>, <<"z","a","w","r","s">>, <<"z","b","a">>,
      <<"z","f","h","m","i","n">>, <<"z","i","c","b","o","m">>,
      <<"z","k","n">>, <<"z","k","t">>, <<"z","v","k","t">> }

Without(tokens, omitted) == SelectSeq(tokens, LAMBDA t : t \notin omitted)

ProfileInputs ==
    { <<"r","v","6","4">> \o Join(Without(cpuinfo_tokens, omitted)) :
        omitted \in {o \in SUBSET Omittable : Cardinality(o) <= MaxOmit} }

----------------------------------------------------------------------------
(* State machine *)

Start(e, p, input, exts) ==
    /\ entry = e
    /\ pc = p
    /\ isa_input = input
    /\ bitness = 0
    /\ isa_string = <<>>
    /\ multi_character = FALSE
    /\ extensions = exts
    /\ check = <<>>
    /\ check_pos = 0
    /\ err = Error(NoError, NoName)

\* RiscvExtensionAnalyzer(isa_string) is called, as the tests do
Init == \E input \in ParseInputs : Start("ctor", "init", input, <<>>)

\* add_implied_extensions is called on a literal list, as linux_supported does
InitResolve == \E exts \in ResolveInputs : Start("add_implied", "implies", <<>>, exts)

\* is_rva23_ready is called and read_cpuinfo found the ISA line
InitProfile == \E input \in ProfileInputs : Start("rva23", "init", input, <<>>)

\* __init__ up to the call of parse_isa_string
Construct ==
    /\ pc = "init"
    /\ LET base == check_base_isa(Lower(isa_input))
       IN  IF base.bitness = 0
           THEN /\ pc' = "error"
                /\ err' = Error("Invalid base ISA", NoName)
                /\ UNCHANGED <<bitness, isa_string, multi_character, extensions>>
           ELSE /\ pc' = "parse"
                /\ bitness' = base.bitness
                /\ isa_string' = base.remainder
                /\ multi_character' = FALSE
                /\ extensions' = <<>>
                /\ UNCHANGED err
    /\ UNCHANGED <<entry, isa_input, check, check_pos>>

\* one iteration of 'while len(isa_string) > 0'
ParseStep ==
    /\ pc = "parse"
    /\ isa_string # <<>>
    /\ LET r == parse_step(isa_string, multi_character, extensions)
       IN  /\ isa_string' = r.isa_string
           /\ multi_character' = r.multi_character
           /\ extensions' = r.extensions
           /\ err' = r.err
           /\ pc' = IF r.err.message = NoError THEN "parse" ELSE "error"
    /\ UNCHANGED <<entry, isa_input, bitness, check, check_pos>>

\* the while loop ends and add_implied_extensions is called
ParseEnd ==
    /\ pc = "parse"
    /\ isa_string = <<>>
    /\ pc' = "implies"
    /\ UNCHANGED <<entry, isa_input, bitness, isa_string, multi_character,
                   extensions, check, check_pos, err>>

\* one iteration of the implication loop
ImplyStep ==
    /\ pc = "implies"
    /\ LET r == implication_pass(extensions)
       IN  /\ extensions' = r.extensions
           /\ pc' = IF r.update THEN "implies" ELSE "shorthand"
    /\ UNCHANGED <<entry, isa_input, bitness, isa_string, multi_character,
                   check, check_pos, err>>

\* one iteration of the shorthand loop; when it ends the caller goes on:
\* is_rva23_ready calls rva23_to_check and starts its for loop
ShorthandStep ==
    /\ pc = "shorthand"
    /\ LET r == shorthand_scan(extensions)
       IN  /\ extensions' = r.extensions
           /\ pc' = IF r.update THEN "shorthand"
                    ELSE IF entry = "rva23" THEN "check"
                    ELSE "done"
           /\ IF ~r.update /\ entry = "rva23"
              THEN check' = rva23_to_check /\ check_pos' = 1
              ELSE UNCHANGED <<check, check_pos>>
    /\ UNCHANGED <<entry, isa_input, bitness, isa_string, multi_character, err>>

\* one iteration of 'for ext in check' of is_rva23_ready
CheckStep ==
    /\ pc = "check"
    /\ IF check_pos > Len(check)
       THEN /\ pc' = "ready"
            /\ UNCHANGED <<check_pos, err>>
       ELSE IF ~Contains(extensions, check[check_pos])
       THEN /\ pc' = "error"
            /\ err' = Error("Missing extension", check[check_pos])
            /\ UNCHANGED check_pos
       ELSE /\ check_pos' = check_pos + 1
            /\ UNCHANGED <<pc, err>>
    /\ UNCHANGED <<entry, isa_input, bitness, isa_string, multi_character,
                   extensions, check>>

Next == Construct \/ ParseStep \/ ParseEnd \/ ImplyStep \/ ShorthandStep

NextResolve == ImplyStep \/ ShorthandStep

NextProfile ==
    Construct \/ ParseStep \/ ParseEnd \/ ImplyStep \/ ShorthandStep \/ CheckStep

Spec == Init /\ [][Next]_vars

SpecResolve == InitResolve /\ [][NextResolve]_vars

\* the loops of add_implied_extensions run without waiting for anything
SpecResolveFair == SpecResolve /\ WF_vars(NextResolve)

SpecProfile == InitProfile /\ [][NextProfile]_vars

----------------------------------------------------------------------------
(* Vocabulary of the properties *)

\* the lowercased ISA string after its base ISA
Body == check_base_isa(Lower(isa_input)).remainder

ValidBase == check_base_isa(Lower(isa_input)).bitness # 0

Finished == pc \in {"done", "error"}

Succeeded == pc = "done" /\ err.message = NoError

IsLetter(c) == Code(c) >= 38

MultiStart(c) == c \in {"s", "x", "z"}

\* a single-letter extension letter
SingleLetter(c) == IsLetter(c) /\ ~MultiStart(c)

\* digits, or digits "p" digits
IsVersion(v) ==
    LET d1 == DigitRun(v, 1)
    IN  /\ d1 >= 1
        /\ \/ d1 = Len(v)
           \/ /\ Len(v) >= d1 + 2
              /\ v[d1 + 1] = "p"
              /\ DigitRun(v, d1 + 2) = Len(v) - d1 - 1

\* s.split('_')
RECURSIVE Split(_)
Split(s) ==
    IF \A k \in 1..Len(s) : s[k] # "_" THEN <<s>>
    ELSE LET k == CHOOSE j \in 1..Len(s) :
                      s[j] = "_" /\ \A h \in 1..(j - 1) : s[h] # "_"
         IN  <<SubSeq(s, 1, k - 1)>> \o Split(Drop(s, k))

\* an extension token: a multi-letter name, or a single letter with an
\* optional version
IsToken(t) ==
    /\ t # <<>>
    /\ \/ MultiStart(t[1])
       \/ SingleLetter(t[1]) /\ (Len(t) = 1 \/ IsVersion(Tail(t)))

\* the orderings of a sequence
Orderings(seq) ==
    LET n == Len(seq)
        perms == {f \in [1..n -> 1..n] : \A a, b \in 1..n : f[a] = f[b] => a = b}
    IN  {[k \in 1..n |-> seq[f[k]]] : f \in perms}

\* position of the first multi-letter name when it directly follows a run
\* of single-letter extensions (0 when the body is not of that shape)
DirectMultiAt(body) ==
    LET starts == {k \in 2..Len(body) :
                      /\ MultiStart(body[k])
                      /\ \A j \in 1..(k - 1) : SingleLetter(body[j])}
    IN  IF starts = {} THEN 0 ELSE CHOOSE k \in starts : TRUE

\* how often x occurs in a list
Count(list, x) == Cardinality({k \in 1..Len(list) : list[k] = x})

----------------------------------------------------------------------------
(* C1 *)

\* C1, as stated: every ISA string whose first multi-letter name directly
\* follows a single-letter extension, without '_', fails with
\* 'Expecting underscore'.
C1_UnseparatedMultiFails ==
    (Finished /\ ValidBase /\ DirectMultiAt(Body) > 0)
        => (pc = "error" /\ err.message = "Expecting underscore")

\* C1, amended: no ISA string fails with 'Expecting underscore'; a
\* multi-letter name that directly follows a run of single-letter extensions
\* and runs to the end of the string is accepted: the parse does not fail and
\* the version-stripped name is in the list when the parse loop ends.
C1_UnseparatedMultiAccepted ==
    /\ err.message # "Expecting underscore"
    /\ LET k == DirectMultiAt(Body)
       IN  (ValidBase /\ k > 0 /\ \A j \in 1..Len(Body) : Body[j] # "_")
            => /\ pc # "error"
               /\ pc = "implies"
                    => Contains(extensions,
                                StripVersion(SubSeq(Body, k, Len(Body))))

\* rv64iz... has been parsed to the end
C1_Witness ==
    /\ Succeeded
    /\ DirectMultiAt(Body) > 0
    /\ \A j \in 1..Len(Body) : Body[j] # "_"
    /\ Contains(extensions, <<"i">>)
    /\ Contains(extensions, <<"z","i">>)

----------------------------------------------------------------------------
(* C2 *)

\* C2: a successfully parsed ISA string yields a collection in which each
\* extension name occurs at most once.
C2_NamesOccurOnce ==
    Succeeded => \A k \in 1..Len(extensions) : Count(extensions, extensions[k]) = 1

----------------------------------------------------------------------------
(* C3 *)

\* C3: every name in the collection of a successfully parsed ISA string is
\* non-empty and contains no '_'.
C3_NamesHaveNoUnderscore ==
    Succeeded =>
        \A k \in 1..Len(extensions) :
            /\ extensions[k] # <<>>
            /\ \A j \in 1..Len(extensions[k]) : extensions[k][j] # "_"

----------------------------------------------------------------------------
(* C4 *)

\* C4: after add_implied_extensions, the implication closure of each single
\* member is contained in the result.
C4_ClosureStable ==
    pc = "done" =>
        \A e \in Members(extensions) :
            Members(implication_loop(<<e>>)) \subseteq Members(extensions)

----------------------------------------------------------------------------
(* C5 *)

\* C5: rv64gcsv39 yields bitness 64 and exactly
\* {a, c, d, f, g, i, m, sv39, zicsr, zifencei, zmmul}.
C5_Rv64gcsv39 ==
    (isa_input = Test3Isa /\ Finished) =>
        /\ Succeeded
        /\ bitness = 64
        /\ extensions =
             << <<"a">>, <<"c">>, <<"d">>, <<"f">>, <<"g">>, <<"i">>, <<"m">>,
                <<"s","v","3","9">>, <<"z","i","c","s","r">>,
                <<"z","i","f","e","n","c","e","i">>, <<"z","m","m","u","l">> >>

----------------------------------------------------------------------------
(* C6 *)

\* C6: RV32IMACZicsr_Zifencei yields bitness 32 and exactly
\* {a, c, i, m, zicsr, zifencei, zmmul}.
C6_Rv32imac ==
    (isa_input = Test1Isa /\ Finished) =>
        /\ Succeeded
        /\ bitness = 32
        /\ extensions =
             << <<"a">>, <<"c">>, <<"i">>, <<"m">>, <<"z","i","c","s","r">>,
                <<"z","i","f","e","n","c","e","i">>, <<"z","m","m","u","l">> >>

----------------------------------------------------------------------------
(* C7 *)

----------------------------------------------------------------------------
(* C8 *)

\* C8: when the ISA string is a base ISA followed by extension tokens joined
\* by '_', every ordering of the tokens parses to the same final list.
C8_OrderIndependent ==
    LET tokens == Split(Body)
    IN  (Succeeded /\ \A k \in 1..Len(tokens) : IsToken(tokens[k])) =>
            \A other \in Orderings(tokens) :
                LET r == RiscvExtensionAnalyzer(
                             SubSeq(isa_input, 1, Len(isa_input) - Len(Body))
                                 \o Join(other))
                IN  /\ r.err.message = NoError
                    /\ r.bitness = bitness
                    /\ r.extensions = extensions

\* three different tokens, a versioned single letter after a multi-letter name
C8_Witness ==
    /\ Succeeded
    /\ Split(Body) = << <<"z","f","h","2">>, <<"a","2","p","1">>, <<"m">> >>

----------------------------------------------------------------------------
(* C9 *)

\* the required extensions that Linux publishes
RequiredAndSupported == Members(rva23_required) \cap Members(linux_supported)

Absent == {e \in RequiredAndSupported : ~Contains(extensions, e)}

\* C9: is_rva23_ready ends without error exactly when every required and
\* supported extension is in the parsed list; otherwise it raises 'Missing
\* extension' with the lexically smallest absent one.
C9_ProfileCheck ==
    /\ pc = "ready" => Absent = {}
    /\ (pc = "error" /\ check_pos > 0) =>
          /\ err.message = "Missing extension"
          /\ err.name \in Absent
          /\ \A e \in Absent : e = err.name \/ Less(err.name, e)

\* zicbom and zkt are absent: zicbom is reported, and zic64b, which is
\* required, absent and lexically smaller but not published by Linux, is not
C9_Witness ==
    /\ pc = "error"
    /\ check_pos > 0
    /\ err.name = <<"z","i","c","b","o","m">>
    /\ ~Contains(extensions, <<"z","k","t">>)
    /\ ~Contains(extensions, <<"z","i","c","6","4","b">>)
    /\ Contains(rva23, <<"z","i","c","6","4","b">>)

----------------------------------------------------------------------------
(* C10 *)

\* C10: add_implied_extensions ends, and no step of the implication loop
\* removes a member.
C10_Terminates ==
    /\ <>(pc = "done")
    /\ [][pc = "implies" =>
            \A e \in Members(extensions) :
                Count(extensions', e) >= Count(extensions, e)]_vars

\* the implication loop added to a list with a duplicate and the call ended
C10_Witness ==
    /\ pc = "done"
    /\ Count(extensions, <<"d">>) = 2
    /\ Contains(extensions, <<"z","i","c","s","r">>)

====
